---- MODULE Spec2Model ----
(***************************************************************************)
(* Model of src/main.py, the Streamlit script that fetches the police      *)
(* incident feed, inserts the incidents it has not stored yet into the     *)
(* Supabase table 'incidents', and reads the whole table back.             *)
(*                                                                         *)
(* One run of the script is one ingestion cycle of one instance.  The      *)
(* steps of a run are the statements of the script that can raise or that  *)
(* call the store: the fetch (lines 13-20), the dataframe conversion       *)
(* (lines 23-25), one existence lookup and one insert per incident (lines  *)
(* 35-57) and the full read (line 101).  The chart and table rendering     *)
(* (lines 59-98, 103-204) reads only the dataframes and is not modelled.   *)
(*                                                                         *)
(* A raw incident is a record over the keys eventinc, x, y and eventdesc;  *)
(* eventdesc stands for every field the script copies verbatim.  A key     *)
(* that the JSON object lacks carries ABSENT, a JSON null carries NULL.    *)
(***************************************************************************)
EXTENDS Integers, Sequences, FiniteSets, TLC

\* ---------------------------------------------------------------- bounds
MaxLen == 2         \* longest fetched list of a lone instance
MaxLenDuo == 2      \* longest fetched list when two instances run
MaxCycles == 2      \* runs of a lone instance
MaxFaults == 1      \* store calls that fail for an outside reason

Inst == {1, 2}

\* ------------------------------------------------------------ raw values
ABSENT == "<absent>"
NULL == "<null>"

Raw(id, x, y, desc) == [eventinc |-> id, x |-> x, y |-> y, eventdesc |-> desc]

RawRecords ==
    { Raw("A", "-84", "30", "Theft"),
      Raw("A", "1", "2", "Fire"),
      Raw("B", ABSENT, "30", "Theft"),
      Raw("B", "-84", ABSENT, "Theft"),
      Raw("B", "abc", "30", "Theft"),
      Raw("B", "-84", NULL, "Theft"),
      Raw("", "-84", "30", "Theft"),
      Raw(NULL, "-84", "30", "Theft"),
      Raw(ABSENT, "1", "2", "Theft") }

DuoRecords ==
    { Raw("A", "-84", "30", "Theft"),
      Raw("A", ABSENT, "30", "Fire"),
      Raw("B", "-84", NULL, "Theft"),
      Raw(ABSENT, "1", "2", "Theft") }

ListsOf(S, n) == UNION { [1..k -> S] : k \in 0..n }

SoloLists == ListsOf(RawRecords, MaxLen)
DuoLists == ListsOf(DuoRecords, MaxLenDuo)

\* A record the store held before the first run.
OldRow == [eventinc |-> "A", eventdesc |-> "Old", x |-> 5, y |-> 5, fetched_at |-> 0]
InitStores == { {}, {OldRow} }

\* ------------------------------------------------------- python helpers
\* 'k' in incident
HasKey(incident, k) == incident[k] # ABSENT

\* incident.get(k): None when the key is missing
Get(incident, k) == IF HasKey(incident, k) THEN incident[k] ELSE NULL

\* incident.get(k, 0); the default 0 is written "0", float(0) = float("0")
GetOr0(incident, k) == IF HasKey(incident, k) THEN incident[k] ELSE "0"

\* float(v) on the values of the model: the numerals parse, None raises
\* TypeError and a non-numeric string raises ValueError.
FloatTable ==
    ("-84" :> (0 - 84)) @@ ("30" :> 30) @@ ("1" :> 1) @@ ("2" :> 2) @@ ("0" :> 0)

FloatRaises(v) == v \notin DOMAIN FloatTable
Float(v) == FloatTable[v]

\* df = pd.DataFrame(data); df[k] = df[k].astype(float)
\* The column exists when some record has the key (KeyError otherwise); a
\* record without the key and a None both become NaN; a string must parse.
FrameRaises(data, k) ==
    \/ \A j \in 1..Len(data) : ~HasKey(data[j], k)
    \/ \E j \in 1..Len(data) :
          /\ HasKey(data[j], k)
          /\ data[j][k] # NULL
          /\ FloatRaises(data[j][k])

\* ---------------------------------------------------------------- store
\* select('eventinc').eq('eventinc', id): the rows whose eventinc equals
\* id; no row equals None.
Existing(st, id) == { r \in st : id # NULL /\ r.eventinc = id }

\* The dict passed to insert(); evaluated only when no float() raises.
Payload(incident, now) ==
    [ eventinc |-> Get(incident, "eventinc"),
      eventdesc |-> Get(incident, "eventdesc"),
      x |-> Float(GetOr0(incident, "x")),
      y |-> Float(GetOr0(incident, "y")),
      fetched_at |-> now ]

PayloadRaises(incident) ==
    FloatRaises(GetOr0(incident, "x")) \/ FloatRaises(GetOr0(incident, "y"))

\* The primary key on eventinc (the table's schema is not part of main.py;
\* this is the store contract of the data model): "" when the row is
\* accepted, else the constraint that rejects it.
NoViolation(st, row) == ""
KeyViolation(st, row) ==
    IF row.eventinc = NULL THEN "notnull"
    ELSE IF \E r \in st : r.eventinc = row.eventinc THEN "duplicate"
    ELSE ""

\* insert(row).execute(): the table afterwards and the exception raised
\* ("" for none).
UpsertExecute(st, row) ==
    IF row.eventinc = NULL
    THEN [st |-> st, raised |-> "notnull"]
    ELSE [st |-> { r \in st : r.eventinc # row.eventinc } \cup {row}, raised |-> ""]
InsertExecute(st, row) ==
    IF KeyViolation(st, row) # ""
    THEN [st |-> st, raised |-> KeyViolation(st, row)]
    ELSE [st |-> st \cup {row}, raised |-> ""]

\* ---------------------------------------------------------------- state
VARIABLES
    store,      \* the rows of the table 'incidents'
    clock,      \* datetime.now(), one tick per run
    faults,     \* store calls that have failed for an outside reason
    pc,         \* where each instance is in the script
    cycle,      \* the number of the run each instance is in
    data,       \* the fetched list (line 16 / line 20)
    fetchOk,    \* whether the fetch of this run succeeded
    repeat,     \* whether this run fetched the list of the run before
    idx,        \* position of the for loop in data
    errors,     \* what st.error has shown in this run
    log,        \* the store calls and skips of this run, in order
    snap,       \* the table when this run started
    hist        \* the result of the full read (line 101)

vars == <<store, clock, faults, pc, cycle, data, fetchOk, repeat, idx, errors,
          log, snap, hist>>

Halted(i) == pc[i] \in {"done", "crashed"}

Ev(op, at) == [op |-> op, at |-> at]
Err(cause, at) == [cause |-> cause, at |-> at]

InitWith(active) ==
    /\ store \in InitStores
    /\ clock = 1
    /\ faults = 0
    /\ pc = [i \in Inst |-> IF i \in active THEN "fetch" ELSE "off"]
    /\ cycle = [i \in Inst |-> 1]
    /\ data = [i \in Inst |-> <<>>]
    /\ fetchOk = [i \in Inst |-> TRUE]
    /\ repeat = [i \in Inst |-> FALSE]
    /\ idx = [i \in Inst |-> 1]
    /\ errors = [i \in Inst |-> {}]
    /\ log = [i \in Inst |-> <<>>]
    /\ snap = [i \in Inst |-> store]
    /\ hist = [i \in Inst |-> {}]

Init == InitWith({1})
InitDuo == InitWith({1, 2})

\* ---------------------------------------------------------------- fetch
\* lines 13-17: the request succeeds and data is the list under 'data'
Fetch(i, lists) ==
    /\ pc[i] = "fetch"
    /\ \E l \in lists : data' = [data EXCEPT ![i] = l]
    /\ fetchOk' = [fetchOk EXCEPT ![i] = TRUE]
    /\ repeat' = [repeat EXCEPT ![i] = FALSE]
    /\ pc' = [pc EXCEPT ![i] = "frame"]
    /\ UNCHANGED <<store, clock, faults, cycle, idx, errors, log, snap, hist>>

\* lines 18-20: any exception of the request or of the parse
FetchFail(i) ==
    /\ pc[i] = "fetch"
    /\ data' = [data EXCEPT ![i] = <<>>]
    /\ fetchOk' = [fetchOk EXCEPT ![i] = FALSE]
    /\ repeat' = [repeat EXCEPT ![i] = FALSE]
    /\ errors' = [errors EXCEPT ![i] = @ \cup {Err("fetch", 0)}]
    /\ pc' = [pc EXCEPT ![i] = "frame"]
    /\ UNCHANGED <<store, clock, faults, cycle, idx, log, snap, hist>>

\* ------------------------------------------------------------ dataframe
\* lines 23-25 without an exception
BuildFrame(i) ==
    /\ pc[i] = "frame"
    /\ ~FrameRaises(data[i], "x")
    /\ ~FrameRaises(data[i], "y")
    /\ pc' = [pc EXCEPT ![i] = "loop"]
    /\ UNCHANGED <<store, clock, faults, cycle, data, fetchOk, repeat, idx, errors,
                   log, snap, hist>>

\* lines 23-25 raise KeyError or ValueError; nothing catches it
FrameCrash(i) ==
    /\ pc[i] = "frame"
    /\ FrameRaises(data[i], "x") \/ FrameRaises(data[i], "y")
    /\ pc' = [pc EXCEPT ![i] = "crashed"]
    /\ UNCHANGED <<store, clock, faults, cycle, data, fetchOk, repeat, idx, errors,
                   log, snap, hist>>

\* ----------------------------------------------------------- insert loop
InLoop(i) == pc[i] = "loop" /\ idx[i] <= Len(data[i])
Incident(i) == data[i][idx[i]]

Advance(i) ==
    /\ idx' = [idx EXCEPT ![i] = @ + 1]
    /\ pc' = [pc EXCEPT ![i] = "loop"]

\* lines 36-37
SkipIncomplete(i) ==
    /\ InLoop(i)
    /\ ~HasKey(Incident(i), "eventinc")
    /\ log' = [log EXCEPT ![i] = Append(@, Ev("skip", idx[i]))]
    /\ Advance(i)
    /\ UNCHANGED <<store, clock, faults, cycle, data, fetchOk, repeat, errors, snap,
                   hist>>

\* lines 39-41
Lookup(i) ==
    /\ InLoop(i)
    /\ HasKey(Incident(i), "eventinc")
    /\ log' = [log EXCEPT ![i] = Append(@, Ev("lookup", idx[i]))]
    /\ IF Existing(store, Get(Incident(i), "eventinc")) # {}
       THEN Advance(i)
       ELSE /\ pc' = [pc EXCEPT ![i] = "insert"]
            /\ idx' = idx
    /\ UNCHANGED <<store, clock, faults, cycle, data, fetchOk, repeat, errors, snap,
                   hist>>

\* line 39 raises (connectivity, permissions); it is outside the try
LookupFault(i) ==
    /\ InLoop(i)
    /\ HasKey(Incident(i), "eventinc")
    /\ faults < MaxFaults
    /\ faults' = faults + 1
    /\ log' = [log EXCEPT ![i] = Append(@, Ev("lookup_fault", idx[i]))]
    /\ pc' = [pc EXCEPT ![i] = "crashed"]
    /\ UNCHANGED <<store, clock, cycle, data, fetchOk, repeat, idx, errors, snap,
                   hist>>

\* lines 42-57, float() raises while the dict is built: caught, reported
CoerceFail(i) ==
    /\ pc[i] = "insert"
    /\ PayloadRaises(Incident(i))
    /\ errors' = [errors EXCEPT ![i] = @ \cup {Err("float", idx[i])}]
    /\ log' = [log EXCEPT ![i] = Append(@, Ev("coerce_fail", idx[i]))]
    /\ Advance(i)
    /\ UNCHANGED <<store, clock, faults, cycle, data, fetchOk, repeat, snap, hist>>

\* lines 42-57, the insert reaches the table
Insert(i) ==
    /\ pc[i] = "insert"
    /\ ~PayloadRaises(Incident(i))
    /\ LET res == InsertExecute(store, Payload(Incident(i), clock))
       IN /\ store' = res.st
          /\ errors' = [errors EXCEPT ![i] =
                          IF res.raised = "" THEN @
                          ELSE @ \cup {Err(res.raised, idx[i])}]
    /\ log' = [log EXCEPT ![i] = Append(@, Ev("insert", idx[i]))]
    /\ Advance(i)
    /\ UNCHANGED <<clock, faults, cycle, data, fetchOk, repeat, snap, hist>>

\* lines 42-57, the insert raises for an outside reason: caught, reported
InsertFault(i) ==
    /\ pc[i] = "insert"
    /\ ~PayloadRaises(Incident(i))
    /\ faults < MaxFaults
    /\ faults' = faults + 1
    /\ errors' = [errors EXCEPT ![i] = @ \cup {Err("store", idx[i])}]
    /\ log' = [log EXCEPT ![i] = Append(@, Ev("insert_fault", idx[i]))]
    /\ Advance(i)
    /\ UNCHANGED <<store, clock, cycle, data, fetchOk, repeat, snap, hist>>

\* ------------------------------------------------------------ full read
\* the loop is over; line 101 reads every row
ReadAll(i) ==
    /\ pc[i] = "loop"
    /\ idx[i] > Len(data[i])
    /\ hist' = [hist EXCEPT ![i] = store]
    /\ pc' = [pc EXCEPT ![i] = "done"]
    /\ UNCHANGED <<store, clock, faults, cycle, data, fetchOk, repeat, idx, errors,
                   log, snap>>

Rerun(i) ==
    /\ Halted(i)
    /\ cycle[i] < MaxCycles
    /\ cycle' = [cycle EXCEPT ![i] = @ + 1]
    /\ clock' = clock + 1
    /\ idx' = [idx EXCEPT ![i] = 1]
    /\ errors' = [errors EXCEPT ![i] = {}]
    /\ log' = [log EXCEPT ![i] = <<>>]
    /\ snap' = [snap EXCEPT ![i] = store]
    /\ hist' = [hist EXCEPT ![i] = {}]

\* the script is run again (Streamlit rerun, next process invocation)
NewCycle(i) ==
    /\ Rerun(i)
    /\ pc' = [pc EXCEPT ![i] = "fetch"]
    /\ data' = [data EXCEPT ![i] = <<>>]
    /\ fetchOk' = [fetchOk EXCEPT ![i] = TRUE]
    /\ repeat' = [repeat EXCEPT ![i] = FALSE]
    /\ UNCHANGED <<store, faults>>

\* the script is run again and lines 13-17 receive the list that the run
\* before received
NewCycleSame(i) ==
    /\ Rerun(i)
    /\ fetchOk[i]
    /\ pc' = [pc EXCEPT ![i] = "frame"]
    /\ repeat' = [repeat EXCEPT ![i] = TRUE]
    /\ UNCHANGED <<store, faults, data, fetchOk>>

Step(i) ==
    \/ FetchFail(i)
    \/ BuildFrame(i)
    \/ FrameCrash(i)
    \/ SkipIncomplete(i)
    \/ Lookup(i)
    \/ LookupFault(i)
    \/ CoerceFail(i)
    \/ Insert(i)
    \/ InsertFault(i)
    \/ ReadAll(i)

\* a lone instance, run after run
Next ==
    \E i \in Inst :
        \/ Fetch(i, SoloLists)
        \/ NewCycle(i)
        \/ NewCycleSame(i)
        \/ Step(i)

Spec == Init /\ [][Next]_vars

\* two instances, one run each, interleaved at the store calls
NextDuo ==
    \E i \in Inst :
        \/ Fetch(i, DuoLists)
        \/ Step(i)

SpecDuo == InitDuo /\ [][NextDuo]_vars

\* ------------------------------------------------------- claim helpers
ValidId(v) == v \notin {ABSENT, NULL, ""}
Ids(st) == { r.eventinc : r \in st }
Pos(i) == 1..Len(data[i])
Logged(i, ops, k) == \E n \in 1..Len(log[i]) : log[i][n].op \in ops /\ log[i][n].at = k
Reported(i, k) == \E e \in errors[i] : e.at = k
OneRowPerId == \A r1, r2 \in store : r1.eventinc = r2.eventinc => r1 = r2

\* record k of the list has a usable identifier that was not in the table
\* when the run started and that no earlier record of the list carries
Fresh(i, k) ==
    /\ ValidId(data[i][k].eventinc)
    /\ data[i][k].eventinc \notin Ids(snap[i])
    /\ \A j \in 1..(k - 1) : data[i][j].eventinc # data[i][k].eventinc

Unparsable(rec, c) == HasKey(rec, c) /\ FloatRaises(rec[c])

\* C1: in a run whose fetch failed the list is empty, no insert is made, no
\* exception ends the run, and the full read returns every row that was
\* stored before the run.
C1_FetchFailureResilience ==
    \A i \in Inst :
        ~fetchOk[i] =>
            /\ data[i] = <<>>
            /\ log[i] = <<>>
            /\ pc[i] # "crashed"
            /\ (pc[i] = "done" => snap[i] \subseteq hist[i])

\* C2: the table never holds two rows with one eventinc, and with no store
\* error a lone instance that runs again on the list it has just processed
\* leaves the table as the run before left it.
C2_Idempotence ==
    /\ OneRowPerId
    /\ (repeat[1] /\ faults = 0) => store = snap[1]

\* a second run on the same two-record list, which names one identifier
\* twice and whose first run inserted it, has finished
C2_Witness ==
    /\ repeat[1]
    /\ faults = 0
    /\ pc[1] = "done"
    /\ Len(data[1]) >= 2
    /\ ValidId(data[1][1].eventinc)
    /\ data[1][1].eventinc = data[1][2].eventinc
    /\ \E r \in store : r.eventinc = data[1][1].eventinc /\ r.fetched_at = 1

\* C3: a record whose eventinc is absent, empty or null never reaches an
\* insert, is never stored and has no error reported for it.
C3_Rejection ==
    /\ \A r \in store : ValidId(r.eventinc)
    /\ \A i \in Inst : \A k \in Pos(i) :
          ~ValidId(data[i][k].eventinc) =>
              /\ ~Logged(i, {"insert", "insert_fault"}, k)
              /\ ~Reported(i, k)

\* C4: when the list holds valid, distinct, not yet stored records and the
\* store fails on exactly one of them (in its lookup or in its insert), the
\* run reaches its end, reports one failure and has stored every other record.
C4_PartialFailureIsolation ==
    \A i \in Inst :
        ( /\ Halted(i)
          /\ fetchOk[i]
          /\ Len(data[i]) >= 2
          /\ \A k \in Pos(i) : Fresh(i, k) /\ ~PayloadRaises(data[i][k])
          /\ Cardinality({ k \in Pos(i) :
                Logged(i, {"lookup_fault", "insert_fault"}, k) }) = 1 )
        => /\ pc[i] = "done"
           /\ Cardinality(errors[i]) = 1
           /\ \A k \in Pos(i) :
                 ~Logged(i, {"lookup_fault", "insert_fault"}, k)
                    => data[i][k].eventinc \in Ids(store)

\* C5: every stored row is still stored, field for field, after every step:
\* no step removes a row or changes one, whatever record is fetched later.
C5_AppendOnly == [][store \subseteq store']_vars

\* an instance tried to insert a record whose eventinc another writer had
\* stored with other field values, and that row is still as it was written
C5_Witness ==
    \E i \in Inst : \E e \in errors[i] :
        /\ e.cause = "duplicate"
        /\ \E r \in store :
              /\ r.eventinc = data[i][e.at].eventinc
              /\ r.eventdesc # data[i][e.at].eventdesc

\* C6: when some fetched record lacks the x or the y key, every coordinate
\* that is present parses and the store does not fail, the run ends without
\* an exception, and each such record with a valid, not yet stored eventinc
\* is stored with 0 for the missing coordinate and no error reported.
C6_DefaultGeometry ==
    \A i \in Inst :
        ( /\ fetchOk[i]
          /\ faults = 0
          /\ pc[i] \notin {"fetch", "off"}
          /\ \A k \in Pos(i) : ~PayloadRaises(data[i][k])
          /\ \E k \in Pos(i) : ~HasKey(data[i][k], "x") \/ ~HasKey(data[i][k], "y") )
        => /\ pc[i] # "crashed"
           /\ pc[i] = "done" =>
                \A k \in Pos(i) :
                    ( /\ Fresh(i, k)
                      /\ ~HasKey(data[i][k], "x") \/ ~HasKey(data[i][k], "y") )
                    => /\ ~Reported(i, k)
                       /\ \E r \in store :
                             /\ r.eventinc = data[i][k].eventinc
                             /\ ~HasKey(data[i][k], "x") => r.x = 0
                             /\ ~HasKey(data[i][k], "y") => r.y = 0

\* C7: with two instances interleaved the table never holds two rows with
\* one eventinc, and when both have ended, with no store failure, every
\* valid eventinc of either list is stored exactly once.
C7_ConcurrentInstances ==
    /\ OneRowPerId
    /\ ( /\ \A i \in Inst : Halted(i)
         /\ faults = 0 )
       => \A i \in Inst : \A k \in Pos(i) :
             ValidId(data[i][k].eventinc)
                => Cardinality({ r \in store : r.eventinc = data[i][k].eventinc }) = 1

\* C8: an insert that the table rejects because the eventinc is already
\* stored is not reported as an error.
C8_DuplicateIsNotAnError ==
    \A i \in Inst : \A e \in errors[i] : e.cause # "duplicate"

\* C9: when a run has ended and the store did not fail, each record with a
\* valid, not yet stored eventinc whose x or y is present but does not parse
\* is stored with 0 for that coordinate and no error reported.
C9_UnparsableGeometry ==
    \A i \in Inst :
        (Halted(i) /\ fetchOk[i] /\ faults = 0) =>
            \A k \in Pos(i) :
                ( /\ Fresh(i, k)
                  /\ Unparsable(data[i][k], "x") \/ Unparsable(data[i][k], "y") )
                => /\ ~Reported(i, k)
                   /\ \E r \in store :
                         /\ r.eventinc = data[i][k].eventinc
                         /\ Unparsable(data[i][k], "x") => r.x = 0
                         /\ Unparsable(data[i][k], "y") => r.y = 0

\* C10: a run visits the records in order with at most one lookup and at
\* most one insert attempt for each, and, whatever inserts fail, a run that
\* has ended has processed every record of its list.
C10_CycleTermination ==
    \A i \in Inst :
        /\ \A m, n \in 1..Len(log[i]) :
              m < n => /\ log[i][m].at <= log[i][n].at
                       /\ log[i][m] # log[i][n]
        /\ \A k \in Pos(i) :
              Cardinality({ n \in 1..Len(log[i]) : log[i][n].at = k }) <= 2
        /\ ( /\ Halted(i)
             /\ \A k \in Pos(i) : ~Logged(i, {"lookup_fault"}, k) )
           => \A k \in Pos(i) : Logged(i, {"skip", "lookup"}, k)

====
